---- MODULE Spec2Model ----
(***************************************************************************)
(* cbr::Synchronizer<T, Ts...> (include/cbr_utils/synchronizer.hpp and     *)
(* synchronizer_impl.hxx): N queues of timestamped elements, add<k>,       *)
(* search and add_and_search<k>, together with a record of every callback  *)
(* invocation the object makes.                                            *)
(*                                                                         *)
(* Elements are records [s, n, t]: the n-th element handed to add<s>, with *)
(* timestamp t.  The time functions are the ones the tests install         *)
(* (el -> its integer stamp).  Timestamps are drawn from a small window    *)
(* 0 .. MaxT; INT64_MIN, just below the window, stands for                 *)
(* std::numeric_limits<int64_t>::min().  Inside the window no int64        *)
(* addition or subtraction of the code overflows.                          *)
(***************************************************************************)
EXTENDS Integers, Sequences, FiniteSets, TLC

\* number of streams, 1 + sizeof...(Ts)
N == 2
\* largest timestamp handed to add
MaxT == 3
\* largest number of add / add_and_search calls per stream
MaxAdd == 3
\* largest delta_t handed to the constructor
MaxDelta == 2
\* std::numeric_limits<int64_t>::min(), scaled: the value below every timestamp
INT64_MIN == -1
\* number of threads that call add_and_search concurrently
NThreads == 2
\* largest timestamp the concurrent callers hand over
MaxTT == 1
\* largest number of add_and_search calls the concurrent callers make per stream
MaxAddT == 2
\* n_workers of the thread pool
NWorkers == 2
\* largest number of tasks handed to ThreadPool::enqueue
MaxTasks == 3
\* largest time point handed to (or read from the clock by) a CyberTimer
MaxClock == 3
\* largest number of duration samples a CyberTimer averages
MaxCount == 3
\* duration units per clock tick: the test clock counts milliseconds and the
\* timer of the test is a CyberTimer<std::micro, double, CyberClock>
UnitsPerTick == 1000
\* latest time the LoopTimer's clock reaches
MaxNow == 8
\* largest rate of a LoopTimer
MaxRate == 2
\* longest time the loop body takes between two calls of LoopTimer::wait
MaxElapse == 3
\* largest number of calls of LoopTimer::wait
MaxWaits == 4
\* nanoseconds per tick of the LoopTimer's clock (its duration is nanoseconds)
NanosPerTick == 1
\* number of streams of the synchronizer whose search() is followed statement
\* by statement
NS == 3
\* largest timestamp handed to that synchronizer
MaxTS == 3
\* largest number of elements handed to each of its streams
MaxAddS == 2
\* largest delta_t handed to its constructor
MaxDeltaS == 1

Streams == 0 .. (N - 1)
Times == 0 .. MaxT
DeltaTs == 0 .. MaxDelta
Threads == 1 .. NThreads
Workers == 1 .. NWorkers
\* the thread that owns the pool: it enqueues and runs the destructor
Owner == 0

VARIABLES
  queue,        \* m_impl.queue of every stream, front first
  search_idx,   \* m_impl.search_idx of every stream
  optimal_idx,  \* m_impl.optimal_idx of every stream
  m_next_t,     \* Synchronizer<>::m_next_t
  m_delta_t,    \* Synchronizer<>::m_delta_t
  m_search_mtx, \* Synchronizer<>::m_search_mtx, TRUE when locked
  nadd,         \* per stream, the number of elements handed to add so far
  accepted,     \* per stream, the elements add has appended, in order
  rejected,     \* the elements add has discarded, each with the early return taken
  calls,        \* every callback invocation so far, in order
  last,         \* the last operation: its arguments, outcome and callbacks
  pc,           \* per thread, where it stands in add_and_search
  tel,          \* per thread, the element of its current add_and_search call
  tacc,         \* per thread, whether add decided to append that element
  theld,        \* per thread, whether the search lock was held when it called
  raced,        \* an insertion has run unsynchronized alongside a search or
                \* another insertion into the same queue: behaviour is undefined
  crashed,      \* the process has died of it
  m_tasks,      \* ThreadPool::m_tasks, front first (tasks are numbered as enqueued)
  m_stop,       \* ThreadPool::m_stop
  m_mtx,        \* ThreadPool::m_mtx: the thread holding it, or -1
  m_cv,         \* ThreadPool::m_cv: the workers blocked in wait
  m_workers,    \* per worker, where it stands in its loop
  task,         \* per worker, the task it took last (0: none)
  owner,        \* where the owning thread stands
  nenq,         \* the number of tasks enqueue has accepted
  joined,       \* the number of workers the destructor has joined
  taken,        \* the tasks in the order workers took them from m_tasks
  ran,          \* the finished task executions <<task, worker>>, in order
  running_,     \* CyberTimer::running_
  t_start_,     \* CyberTimer::t_start_
  dt_,          \* CyberTimer::dt_ (its count())
  i_,           \* CyberTimer::i_
  avg_sum,      \* CyberTimer::avg_ times i_ (avg_ is avg_sum / i_, 0 when i_ = 0)
  ntoc,         \* the calls of toc / toc_tic on a running timer since
                \* construction or the last restart
  tlast,        \* the last call on the timer: its name, time point and
                \* result, and what the latest toc / toc_tic returned
  steady,       \* LoopTimer's template argument steady
  m_rate,       \* LoopTimer::m_rate
  m_clock,      \* the time LoopTimer::m_clock shows
  m_tNm1,       \* LoopTimer::m_tNm1
  m_count,      \* LoopTimer::m_count
  nwait,        \* the calls of wait made so far
  slept,        \* how long the latest wait slept
  yield_t,      \* the time at which the latest wait yielded
  prev_yield,   \* the time at which the wait before it yielded
  first_yield,  \* the time at which the first wait yielded
  spc,          \* where the caller stands in search() ("idle": in no call)
  loc,          \* the locals of the search() call in progress, and the
                \* number of elements its pivot trim evicted
  sctl          \* the call in progress: made directly or by add_and_search,
                \* the searches so far, next_t at entry; and of the latest
                \* search that returned, the result and what its loop did

syncvars == <<queue, search_idx, optimal_idx, m_next_t, m_delta_t, m_search_mtx,
              nadd, accepted, rejected, calls, last>>
thvars == <<pc, tel, tacc, theld, raced, crashed>>
poolvars == <<m_tasks, m_stop, m_mtx, m_cv, m_workers, task, owner, nenq, joined,
              taken, ran>>
timervars == <<running_, t_start_, dt_, i_, avg_sum, ntoc, tlast>>
loopvars ==
  <<steady, m_rate, m_clock, m_tNm1, m_count, nwait, slept, yield_t,
    prev_yield, first_yield>>
stepvars == <<spc, loc, sctl>>
\* the variables the single-threaded operations of the synchronizer leave alone
notSync == <<thvars, poolvars, timervars, loopvars, stepvars>>
\* the variables the statements of search() leave alone
notSteps == <<thvars, poolvars, timervars, loopvars>>
\* the variables the threads in add_and_search leave alone
notThreads == <<last, poolvars, timervars, loopvars, stepvars>>
\* the variables the thread pool leaves alone
notPool == <<syncvars, thvars, timervars, loopvars, stepvars>>
\* the variables the CyberTimer leaves alone
notTimer == <<syncvars, thvars, poolvars, loopvars, stepvars>>
\* the variables the LoopTimer leaves alone
notLoop == <<syncvars, thvars, poolvars, timervars, stepvars>>
vars == <<syncvars, thvars, poolvars, timervars, loopvars, stepvars>>

----------------------------------------------------------------------------
(* Helpers *)

SetMax(S) == CHOOSE x \in S : \A y \in S : y <= x
SetMin(S) == CHOOSE x \in S : \A y \in S : x <= y

RECURSIVE Concat(_, _, _)
\* f[from] \o f[from + 1] \o ... \o f[N - 1]: the streams in mapApply's order
Concat(f, from, to) == IF from > to THEN <<>> ELSE f[from] \o Concat(f, from + 1, to)

\* the time function of the tests: set_time_fcn<k>([](const int & i) { return i; })
time_fcn(el) == el.t

\* one invocation of a stream's nonsync callback (callback_this_)
DropCall(k, el) == [kind |-> "drop", stream |-> k, els |-> <<el>>]
\* mutant: every argument is taken from the first queue
MatchCallFirstQueue(qs) ==
  [kind |-> "match", stream |-> Cardinality(DOMAIN qs),
   els |-> [i \in 1 .. Cardinality(DOMAIN qs) |-> qs[0][1]]]

\* one invocation of callback_ with the front of every queue
MatchCall(qs) == [kind |-> "match", stream |-> Cardinality(DOMAIN qs),
   els |-> [i \in 1 .. Cardinality(DOMAIN qs) |-> qs[i - 1][1]]]

----------------------------------------------------------------------------
(* add<k>(el) *)

\* add's first early return: "doesn't respect minimal delta_t"
TooOld(next_t, el) == time_fcn(el) < next_t

\* add's second early return: "time not monotonically increasing"
NotMonotonic(q, el) == Len(q) # 0 /\ time_fcn(el) < time_fcn(q[Len(q)])

\* mutant: the monotonicity check is missing
AddAcceptsAnyOrder(q, next_t, el) == ~TooOld(next_t, el)

\* add reaches emplace_back
AddAccepts(q, next_t, el) == ~TooOld(next_t, el) /\ ~NotMonotonic(q, el)

\* mutant: an element stamped exactly next_t is refused too
AddQueueLate(q, next_t, el) ==
  IF AddAccepts(q, next_t, el) /\ time_fcn(el) # next_t THEN Append(q, el) ELSE q

\* the queue of stream k after add<k>(el)
AddQueue(q, next_t, el) == IF AddAccepts(q, next_t, el) THEN Append(q, el) ELSE q

----------------------------------------------------------------------------
(* keep_n_before_time(n, time) *)

RECURSIVE TrimCountBefore(_, _, _)
\* mutant: only the elements stamped strictly before `time` are popped
TrimCountBefore(q, n, time) ==
  IF Len(q) >= n + 1 /\ time_fcn(q[n + 1]) < time
    THEN 1 + TrimCountBefore(Tail(q), n, time)
    ELSE 0

RECURSIVE TrimCountNoEntry(_, _, _)
\* mutant: the trim against next_t (n = 0) pops nothing
TrimCountNoEntry(q, n, time) ==
  IF n # 0 /\ Len(q) >= n + 1 /\ time_fcn(q[n + 1]) <= time
    THEN 1 + TrimCountNoEntry(Tail(q), n, time)
    ELSE 0

RECURSIVE TrimCountEntryBefore(_, _, _)
\* mutant: the trim against next_t (n = 0) pops only the elements stamped
\* strictly before it
TrimCountEntryBefore(q, n, time) ==
  IF /\ Len(q) >= n + 1
     /\ IF n = 0 THEN time_fcn(q[n + 1]) < time ELSE time_fcn(q[n + 1]) <= time
    THEN 1 + TrimCountEntryBefore(Tail(q), n, time)
    ELSE 0

RECURSIVE TrimCountOnlyEntry(_, _, _)
\* mutant: only the trim against next_t (n = 0) pops anything
TrimCountOnlyEntry(q, n, time) ==
  IF n = 0 /\ Len(q) >= n + 1 /\ time_fcn(q[n + 1]) <= time
    THEN 1 + TrimCountOnlyEntry(Tail(q), n, time)
    ELSE 0

RECURSIVE TrimCount(_, _, _)
\* how many elements the while loop pops from the front of one queue
TrimCount(q, n, time) ==
  IF Len(q) >= n + 1 /\ time_fcn(q[n + 1]) <= time
    THEN 1 + TrimCount(Tail(q), n, time)
    ELSE 0

\* the queues after keep_n_before_time(n, time)
KeepQueues(qs, n, time) ==
  [k \in DOMAIN qs |-> SubSeq(qs[k], TrimCount(qs[k], n, time) + 1, Len(qs[k]))]

\* mutant: each queue is emptied from the back of what is to go
KeepCallsBackwards(qs, n, time) ==
  Concat([k \in DOMAIN qs |->
            [i \in 1 .. TrimCount(qs[k], n, time) |->
               DropCall(k, qs[k][TrimCount(qs[k], n, time) + 1 - i])]],
         0, Cardinality(DOMAIN qs) - 1)

\* mutant: the evicted elements are destroyed without the callback
KeepCallsSilent(qs, n, time) == <<>>

\* the callbacks keep_n_before_time(n, time) invokes, stream by stream
KeepCalls(qs, n, time) ==
  Concat([k \in DOMAIN qs |->
            [i \in 1 .. TrimCount(qs[k], n, time) |-> DropCall(k, qs[k][i])]],
         0, Cardinality(DOMAIN qs) - 1)

----------------------------------------------------------------------------
(* search() *)

\* std::deque::at(i) throws std::out_of_range unless i < size()
AllInRange(qs, sidx) == \A k \in DOMAIN qs : sidx[k] < Len(qs[k])

\* impl.time_fcn(impl.queue.at(impl.search_idx)) of every stream
SearchTimes(qs, sidx) == {time_fcn(qs[k][sidx[k] + 1]) : k \in DOMAIN qs}
min_first_time(qs, sidx) == SetMin(SearchTimes(qs, sidx))
max_first_time(qs, sidx) == SetMax(SearchTimes(qs, sidx))

\* mutant: the check for an empty queue is missing
OneOfEveryTypeAlways(qs) == TRUE

\* the first foldWithAnd of search: no queue is empty
one_of_every_type(qs) == \A k \in DOMAIN qs : Len(qs[k]) # 0

\* mutant: the back of the queues is not looked at
SearchableFrontOnly(qs, pivot_time) ==
  \A k \in DOMAIN qs : time_fcn(qs[k][1]) <= pivot_time

\* mutant: the back must be strictly after the pivot
SearchableStrict(qs, pivot_time) ==
  \A k \in DOMAIN qs :
    /\ time_fcn(qs[k][1]) <= pivot_time
    /\ time_fcn(qs[k][Len(qs[k])]) > pivot_time

\* the second foldWithAnd of search: front at or before, back at or after the pivot
Searchable(qs, pivot_time) ==
  \A k \in DOMAIN qs :
    /\ time_fcn(qs[k][1]) <= pivot_time
    /\ time_fcn(qs[k][Len(qs[k])]) >= pivot_time

\* mutant: no index is advanced
IncreaseNone(qs, sidx, time) == [thrown |-> FALSE, search_idx |-> sidx]

\* mutant: the last stream whose element has a stamp <= time is advanced
IncreaseLastWithTime(qs, sidx, time) ==
  LET stop == {k \in DOMAIN qs : \/ ~(sidx[k] < Len(qs[k]))
                                 \/ time >= time_fcn(qs[k][sidx[k] + 1])}
  IN  IF stop = {}
        THEN [thrown |-> FALSE, search_idx |-> sidx]
        ELSE LET k == SetMax(stop)
             IN  IF sidx[k] < Len(qs[k])
                   THEN [thrown |-> FALSE, search_idx |-> [sidx EXCEPT ![k] = @ + 1]]
                   ELSE [thrown |-> TRUE, search_idx |-> sidx]

\* increase_first_with_time(time): the streams are visited in order and the
\* first whose element at search_idx has a stamp <= time is advanced
increase_first_with_time(qs, sidx, time) ==
  LET stop == {k \in DOMAIN qs : \/ ~(sidx[k] < Len(qs[k]))
                               \/ time >= time_fcn(qs[k][sidx[k] + 1])}
  IN  IF stop = {}
        THEN [thrown |-> FALSE, search_idx |-> sidx]
        ELSE LET k == SetMin(stop)
             IN  IF sidx[k] < Len(qs[k])
                   THEN [thrown |-> FALSE, search_idx |-> [sidx EXCEPT ![k] = @ + 1]]
                   ELSE [thrown |-> TRUE, search_idx |-> sidx]

\* mutant: the loop condition is inverted and the loop never runs
GreedyLoopNever(qs, pivot_time, g) == g

RECURSIVE GreedyLoop(_, _, _)
\* the while loop of search; g holds the locals and the indices
GreedyLoop(qs, pivot_time, g) ==
  IF ~(g.min_t < pivot_time)
    THEN g
    ELSE
      LET inc == increase_first_with_time(qs, g.search_idx, g.min_t)
      IN  IF inc.thrown \/ ~AllInRange(qs, inc.search_idx)
            THEN [g EXCEPT !.thrown = TRUE, !.search_idx = inc.search_idx]
            ELSE
              LET min_t == min_first_time(qs, inc.search_idx)
                  max_t == max_first_time(qs, inc.search_idx)
                  moved == [g EXCEPT !.search_idx = inc.search_idx,
                                     !.min_t = min_t, !.max_t = max_t,
                                     !.iters = @ + 1]
              IN  IF max_t - pivot_time >= g.max_t_best - g.min_t_best
                    THEN [moved EXCEPT !.brk = TRUE]
                    ELSE IF max_t - min_t < g.max_t_best - g.min_t_best
                      THEN GreedyLoop(qs, pivot_time,
                             [moved EXCEPT !.max_t_best = max_t, !.min_t_best = min_t,
                                           !.optimal_idx = inc.search_idx])
                      ELSE GreedyLoop(qs, pivot_time, moved)

\* "drop everything before optimal solution": the queues afterwards
DropBeforeOptimal(qs, oidx) ==
  [k \in DOMAIN qs |-> SubSeq(qs[k], oidx[k] + 1, Len(qs[k]))]

\* the nonsync callbacks that loop invokes, stream by stream
DropBeforeOptimalCalls(qs, oidx) ==
  Concat([k \in DOMAIN qs |-> [i \in 1 .. oidx[k] |-> DropCall(k, qs[k][i])]],
         0, Cardinality(DOMAIN qs) - 1)

\* mutant: only the first queue is popped
PopFrontsFirstOnly(qs) == [k \in DOMAIN qs |-> IF k = 0 THEN Tail(qs[k]) ELSE qs[k]]

\* the last mapApply of search: pop the front of every queue
PopFronts(qs) == [k \in DOMAIN qs |-> Tail(qs[k])]

Zeros == [k \in Streams |-> 0]

\* the chosen representatives: the element at optimal_idx of every queue
\* when the while loop has ended
Chosen(qs, oidx) ==
  [i \in 1 .. Cardinality(DOMAIN qs) |-> qs[i - 1][oidx[i - 1] + 1]]

\* mutant: delta_t is left out
NextTNoDelta(min_t_best, delta_t) == min_t_best

\* "set time to start searching for next msg"
NextT(min_t_best, delta_t) == min_t_best + delta_t

\* the commit phase of search, after the while loop.  front() and pop_front()
\* of an empty deque are undefined: the drop loop pops optimal_idx elements
\* whatever the size, and call_callback and the last mapApply take the front
\* of every queue unchecked.  undef marks a call that does so.
Commit(qs, pivot_time, g, delta_t, calls0) ==
  LET q2 == DropBeforeOptimal(qs, g.optimal_idx)
      c2 == DropBeforeOptimalCalls(qs, g.optimal_idx)
      q3 == KeepQueues(q2, 1, g.max_t_best)
      c3 == KeepCalls(q2, 1, g.max_t_best)
  IN  IF \E k \in DOMAIN qs : g.optimal_idx[k] >= Len(qs[k]) \/ Len(q3[k]) = 0
        THEN [ret |-> FALSE, thrown |-> FALSE, undef |-> TRUE,
              queue |-> qs,
              search_idx |-> g.search_idx, optimal_idx |-> g.optimal_idx,
              next_t |-> NextT(g.min_t_best, delta_t),
              calls |-> calls0, chosen |-> <<>>,
              pivot_time |-> pivot_time,
              min_t_best |-> g.min_t_best, max_t_best |-> g.max_t_best,
              iters |-> g.iters, brk |-> g.brk]
        ELSE [ret |-> TRUE, thrown |-> FALSE, undef |-> FALSE,
              queue |-> PopFronts(q3),
              search_idx |-> [k \in DOMAIN qs |-> 0],
              optimal_idx |-> [k \in DOMAIN qs |-> 0],
              next_t |-> NextT(g.min_t_best, delta_t),
              calls |-> calls0 \o c2 \o c3 \o <<MatchCall(q3)>>,
              chosen |-> Chosen(qs, g.optimal_idx),
              pivot_time |-> pivot_time,
              min_t_best |-> g.min_t_best, max_t_best |-> g.max_t_best,
              iters |-> g.iters, brk |-> g.brk]

\* what an undefined front() / pop_front() may leave behind: the queues as
\* they were, or emptied
Undefined(r) ==
  IF r.undef THEN {r, [r EXCEPT !.queue = [k \in DOMAIN r.queue |-> <<>>]]} ELSE {r}

\* search(): the outcome for the given fields.  ret is the returned value,
\* thrown says that a deque::at left the call with std::out_of_range.
Search(qs, sidx, oidx, next_t, delta_t) ==
  LET q0 == KeepQueues(qs, 0, next_t)
      c0 == KeepCalls(qs, 0, next_t)
      none == [ret |-> FALSE, thrown |-> FALSE, undef |-> FALSE, queue |-> q0,
               search_idx |-> sidx, optimal_idx |-> oidx, next_t |-> next_t,
               calls |-> c0, chosen |-> <<>>, pivot_time |-> INT64_MIN,
               min_t_best |-> INT64_MIN, max_t_best |-> INT64_MIN,
               iters |-> 0, brk |-> FALSE]
  IN  IF ~one_of_every_type(q0)
        THEN none
        ELSE IF ~AllInRange(q0, sidx)
          THEN [none EXCEPT !.thrown = TRUE]
          ELSE
            LET pivot_time == max_first_time(q0, sidx)
                q1 == KeepQueues(q0, 1, pivot_time)
                c1 == KeepCalls(q0, 1, pivot_time)
                kept == [none EXCEPT !.queue = q1, !.calls = c0 \o c1,
                                     !.pivot_time = pivot_time]
            IN  IF ~Searchable(q1, pivot_time)
                  THEN kept
                  ELSE IF ~AllInRange(q1, sidx)
                    THEN [kept EXCEPT !.thrown = TRUE]
                    ELSE
                      LET min0 == min_first_time(q1, sidx)
                          g == GreedyLoop(q1, pivot_time,
                                 [search_idx |-> sidx, optimal_idx |-> oidx,
                                  min_t |-> min0, max_t |-> pivot_time,
                                  min_t_best |-> min0, max_t_best |-> pivot_time,
                                  thrown |-> FALSE, iters |-> 0, brk |-> FALSE])
                      IN  IF g.thrown
                            THEN [kept EXCEPT !.thrown = TRUE,
                                              !.search_idx = g.search_idx,
                                              !.optimal_idx = g.optimal_idx]
                            ELSE Commit(q1, pivot_time, g, delta_t, c0 \o c1)

----------------------------------------------------------------------------
(* The operations *)

NoEl == [s |-> N, n |-> 0, t |-> INT64_MIN]

\* what `last` records of an operation; for a call of search, prev is the
\* operation that came before it
Report(op, el, acc, r, nsearch, found, opcalls) ==
  [op |-> op, prev |-> IF op = "search" THEN last.op ELSE "none",
   el |-> el, acc |-> acc, ret |-> r.ret, thrown |-> r.thrown, undef |-> r.undef,
   nsearch |-> nsearch, found |-> found, calls |-> opcalls, chosen |-> r.chosen,
   pivot_time |-> r.pivot_time,
   min_t_best |-> r.min_t_best, max_t_best |-> r.max_t_best,
   iters |-> r.iters, brk |-> r.brk]

NoSearch ==
  [ret |-> FALSE, thrown |-> FALSE, undef |-> FALSE, chosen |-> <<>>,
   pivot_time |-> INT64_MIN,
   min_t_best |-> INT64_MIN, max_t_best |-> INT64_MIN, iters |-> 0, brk |-> FALSE]

\* ThreadPool(n_workers): m_stop(false), the workers are started
InitPool ==
  /\ m_tasks = <<>>
  /\ m_stop = FALSE
  /\ m_mtx = -1
  /\ m_cv = {}
  /\ m_workers = [w \in Workers |-> "lock"]
  /\ task = [w \in Workers |-> 0]
  /\ owner = "use"
  /\ nenq = 0
  /\ joined = 0
  /\ taken = <<>>
  /\ ran = <<>>

\* CyberTimer(): the default member initializers
InitTimer ==
  /\ running_ = FALSE
  /\ t_start_ = 0
  /\ dt_ = 0
  /\ i_ = 0
  /\ avg_sum = 0
  /\ ntoc = 0
  /\ tlast = [op |-> "init", t |-> 0, ret |-> 0, toced |-> FALSE, tocret |-> 0]

\* LoopTimer<clock_t, steady>(rate): a default-constructed time point is
\* the clock's epoch
InitLoop(st, rate) ==
  /\ steady = st
  /\ m_rate = rate
  /\ m_clock = 0
  /\ m_tNm1 = 0
  /\ m_count = 0
  /\ nwait = 0
  /\ slept = 0
  /\ yield_t = 0
  /\ prev_yield = 0
  /\ first_yield = 0

\* the locals of search() before they are initialized
NoLocals ==
  [pivot_time |-> INT64_MIN, min_t |-> INT64_MIN, max_t |-> INT64_MIN,
   min_t_best |-> INT64_MIN, max_t_best |-> INT64_MIN, iters |-> 0, brk |-> FALSE,
   ntrim |-> 0]

\* no call of search() or add_and_search is in progress
NoCall ==
  [mode |-> "none", nsearch |-> 0, ret |-> FALSE, thrown |-> FALSE,
   undef |-> FALSE, next_t0 |-> INT64_MIN, len0 |-> 0,
   iters |-> 0, brk |-> FALSE]

\* Synchronizer<T, Ts...>(delta_t) with the streams S, and the threads that
\* will call it
InitStreams(S) ==
  /\ queue = [k \in S |-> <<>>]
  /\ search_idx = [k \in S |-> 0]
  /\ optimal_idx = [k \in S |-> 0]
  /\ m_next_t = INT64_MIN
  /\ m_delta_t \in DeltaTs
  /\ m_search_mtx = FALSE
  /\ nadd = [k \in S |-> 0]
  /\ accepted = [k \in S |-> <<>>]
  /\ rejected = {}
  /\ calls = <<>>
  /\ last = [op |-> "init", prev |-> "none",
             el |-> NoEl, acc |-> FALSE, ret |-> FALSE, thrown |-> FALSE,
             undef |-> FALSE,
             nsearch |-> 0, found |-> 0, calls |-> <<>>, chosen |-> <<>>,
             pivot_time |-> INT64_MIN,
             min_t_best |-> INT64_MIN, max_t_best |-> INT64_MIN,
             iters |-> 0, brk |-> FALSE]
  /\ pc = [th \in Threads |-> "idle"]
  /\ tel = [th \in Threads |-> NoEl]
  /\ tacc = [th \in Threads |-> FALSE]
  /\ theld = [th \in Threads |-> FALSE]
  /\ raced = FALSE
  /\ crashed = FALSE
  /\ spc = "idle"
  /\ loc = NoLocals
  /\ sctl = NoCall

\* Synchronizer<T, Ts...>(delta_t) with N streams
InitSynchronizer == InitStreams(Streams)

\* the objects after construction; the LoopTimer is a LoopTimer<> with its
\* default rate
Init ==
  /\ InitSynchronizer
  /\ InitPool
  /\ InitTimer
  /\ InitLoop(FALSE, 1)

\* the same with a LoopTimer<clock_t, st>(rate) of either kind and any rate
InitLoopTimers ==
  /\ InitSynchronizer
  /\ InitPool
  /\ InitTimer
  /\ \E st \in BOOLEAN, rate \in 1 .. MaxRate : InitLoop(st, rate)

\* the element a call of add<k> or add_and_search<k> hands over
NewEl(k, t) == [s |-> k, n |-> nadd[k] + 1, t |-> t]

\* the bookkeeping of an insertion attempt
Handed(k, el) ==
  /\ nadd' = [nadd EXCEPT ![k] = @ + 1]
  /\ accepted' = IF AddAccepts(queue[k], m_next_t, el)
                   THEN [accepted EXCEPT ![k] = Append(@, el)]
                   ELSE accepted
  /\ rejected' = IF AddAccepts(queue[k], m_next_t, el)
                   THEN rejected
                   ELSE rejected \cup {[el |-> el,
                                        why |-> IF TooOld(m_next_t, el)
                                                  THEN "too_old" ELSE "not_monotonic"]}

\* sync.add<k>(el)
Add(k, t) ==
  LET el == NewEl(k, t)
  IN  /\ queue' = [queue EXCEPT ![k] = AddQueue(@, m_next_t, el)]
      /\ Handed(k, el)
      /\ last' = Report("add", el, AddAccepts(queue[k], m_next_t, el), NoSearch, 0, 0, <<>>)
      /\ UNCHANGED <<search_idx, optimal_idx, m_next_t, m_delta_t, m_search_mtx, calls>>
      /\ UNCHANGED notSync

\* sync.search()
SearchOp ==
  \E s \in {Search(queue, search_idx, optimal_idx, m_next_t, m_delta_t)} :
    \E r \in Undefined(s) :
      /\ queue' = r.queue
      /\ search_idx' = r.search_idx
      /\ optimal_idx' = r.optimal_idx
      /\ m_next_t' = r.next_t
      /\ calls' = calls \o r.calls
      /\ last' = Report("search", NoEl, FALSE, r, 1, IF r.ret THEN 1 ELSE 0, r.calls)
      /\ UNCHANGED <<m_delta_t, m_search_mtx, nadd, accepted, rejected>>
      /\ UNCHANGED notSync

\* mutant: search is called once, whatever it returns
DrainOnce(st, delta_t) ==
  LET r == Search(st.queue, st.search_idx, st.optimal_idx, st.next_t, delta_t)
  IN  [queue |-> r.queue, search_idx |-> r.search_idx,
       optimal_idx |-> r.optimal_idx, next_t |-> r.next_t,
       calls |-> st.calls \o r.calls, nsearch |-> st.nsearch + 1,
       found |-> st.found + (IF r.ret THEN 1 ELSE 0), r |-> r]

RECURSIVE Drain(_, _)
\* while (search_more) { search_more = search(); }
Drain(st, delta_t) ==
  LET r == Search(st.queue, st.search_idx, st.optimal_idx, st.next_t, delta_t)
      nx == [queue |-> r.queue, search_idx |-> r.search_idx,
             optimal_idx |-> r.optimal_idx, next_t |-> r.next_t,
             calls |-> st.calls \o r.calls, nsearch |-> st.nsearch + 1,
             found |-> st.found + (IF r.ret THEN 1 ELSE 0), r |-> r]
  IN  IF r.ret THEN Drain(nx, delta_t) ELSE nx

\* sync.add_and_search<k>(el)
AddAndSearch(k, t) ==
  LET el == NewEl(k, t)
      ok == AddAccepts(queue[k], m_next_t, el)
      q == [queue EXCEPT ![k] = AddQueue(@, m_next_t, el)]
  IN  \E st \in {Drain([queue |-> q, search_idx |-> search_idx,
                         optimal_idx |-> optimal_idx, next_t |-> m_next_t,
                         calls |-> <<>>, nsearch |-> 0, found |-> 0, r |-> NoSearch],
                        m_delta_t)} :
    \E out \in Undefined(st.r) :
      /\ Handed(k, el)
      /\ IF m_search_mtx
           THEN \* try_lock failed: the search is skipped
                /\ queue' = q
                /\ last' = Report("add_and_search", el, ok, NoSearch, 0, 0, <<>>)
                /\ UNCHANGED <<search_idx, optimal_idx, m_next_t, m_search_mtx, calls>>
           ELSE /\ queue' = IF st.r.undef THEN out.queue ELSE st.queue
                /\ search_idx' = st.search_idx
                /\ optimal_idx' = st.optimal_idx
                /\ m_next_t' = st.next_t
                /\ calls' = calls \o st.calls
                \* an exception leaves add_and_search before unlock()
                /\ m_search_mtx' = st.r.thrown
                /\ last' = Report("add_and_search", el, ok, st.r, st.nsearch, st.found, st.calls)
      /\ UNCHANGED m_delta_t
      /\ UNCHANGED notSync

Next ==
  \/ \E k \in Streams, t \in Times : nadd[k] < MaxAdd /\ Add(k, t)
  \/ SearchOp
  \/ \E k \in Streams, t \in Times : nadd[k] < MaxAdd /\ AddAndSearch(k, t)

Spec == Init /\ [][Next]_vars

\* the last index of the common sequence 0, 1, ..., FeedK fed to every stream
FeedK == 9

\* every stream is fed 0, 1, ..., FeedK in order through add_and_search, the
\* streams interleaved at will, on a synchronizer built with delta_t = 0
InitFeed == Init /\ m_delta_t = 0
NextFeed == \E k \in Streams : nadd[k] <= FeedK /\ AddAndSearch(k, nadd[k])
SpecFeed == InitFeed /\ [][NextFeed]_vars

\* largest timestamp of the wider window
MaxTWide == 5

\* the object is used through add_and_search alone, with stamps 0 .. MaxTWide
NextWide ==
  \E k \in Streams, t \in 0 .. MaxTWide : nadd[k] < MaxAdd /\ AddAndSearch(k, t)
SpecWide == Init /\ [][NextWide]_vars

----------------------------------------------------------------------------
(* search() followed statement by statement on a Synchronizer of NS        *)
(* streams used by one thread: add<k>, search() and add_and_search<k>      *)
(* with its drain loop.  A call of search() passes through "call" (about   *)
(* to run), "entry" (after the trim against next_t), "trimmed" (after the  *)
(* pivot trim), "loop" (at the test of the while loop) and "commit" (the   *)
(* loop has ended).                                                        *)

StreamsS == 0 .. (NS - 1)

\* mutant: the best window is never replaced
LoopBodyKeepsFirst(qs, pivot_time, g) ==
  LET inc == increase_first_with_time(qs, g.search_idx, g.min_t)
  IN  IF inc.thrown \/ ~AllInRange(qs, inc.search_idx)
        THEN [g EXCEPT !.thrown = TRUE, !.search_idx = inc.search_idx]
        ELSE
          LET min_t == min_first_time(qs, inc.search_idx)
              max_t == max_first_time(qs, inc.search_idx)
              moved == [g EXCEPT !.search_idx = inc.search_idx,
                                 !.min_t = min_t, !.max_t = max_t,
                                 !.iters = @ + 1]
          IN  IF max_t - pivot_time >= g.max_t_best - g.min_t_best
                THEN [moved EXCEPT !.brk = TRUE]
                ELSE moved

\* mutant: the loop is left as soon as max_t is at or after the pivot
LoopBodyBreaksAtPivot(qs, pivot_time, g) ==
  LET inc == increase_first_with_time(qs, g.search_idx, g.min_t)
  IN  IF inc.thrown \/ ~AllInRange(qs, inc.search_idx)
        THEN [g EXCEPT !.thrown = TRUE, !.search_idx = inc.search_idx]
        ELSE
          LET min_t == min_first_time(qs, inc.search_idx)
              max_t == max_first_time(qs, inc.search_idx)
              moved == [g EXCEPT !.search_idx = inc.search_idx,
                                 !.min_t = min_t, !.max_t = max_t,
                                 !.iters = @ + 1]
          IN  IF max_t - pivot_time >= 0
                THEN [moved EXCEPT !.brk = TRUE]
                ELSE IF max_t - min_t < g.max_t_best - g.min_t_best
                  THEN [moved EXCEPT !.max_t_best = max_t, !.min_t_best = min_t,
                                     !.optimal_idx = inc.search_idx]
                  ELSE moved

\* one pass through the body of the while loop of search; g holds the
\* locals and the indices
LoopBody(qs, pivot_time, g) ==
  LET inc == increase_first_with_time(qs, g.search_idx, g.min_t)
  IN  IF inc.thrown \/ ~AllInRange(qs, inc.search_idx)
        THEN [g EXCEPT !.thrown = TRUE, !.search_idx = inc.search_idx]
        ELSE
          LET min_t == min_first_time(qs, inc.search_idx)
              max_t == max_first_time(qs, inc.search_idx)
              moved == [g EXCEPT !.search_idx = inc.search_idx,
                                 !.min_t = min_t, !.max_t = max_t,
                                 !.iters = @ + 1]
          IN  IF max_t - pivot_time >= g.max_t_best - g.min_t_best
                THEN [moved EXCEPT !.brk = TRUE]
                ELSE IF max_t - min_t < g.max_t_best - g.min_t_best
                  THEN [moved EXCEPT !.max_t_best = max_t, !.min_t_best = min_t,
                                     !.optimal_idx = inc.search_idx]
                  ELSE moved

\* the locals and the indices of the call in progress
Locals ==
  [search_idx |-> search_idx, optimal_idx |-> optimal_idx,
   min_t |-> loc.min_t, max_t |-> loc.max_t,
   min_t_best |-> loc.min_t_best, max_t_best |-> loc.max_t_best,
   thrown |-> FALSE, iters |-> loc.iters, brk |-> loc.brk]

\* search() returns ret, or is left by an exception; the drain loop of
\* add_and_search calls it again after true and unlocks after false
Return(ret, thrown, undef) ==
  /\ spc' = IF sctl.mode = "drain" /\ ret THEN "call" ELSE "idle"
  /\ loc' = NoLocals
  /\ sctl' = IF sctl.mode = "drain" /\ ret
               THEN [sctl EXCEPT !.ret = ret]
               ELSE [NoCall EXCEPT !.ret = ret, !.thrown = thrown, !.undef = undef,
                                   !.iters = loc.iters, !.brk = loc.brk]
  /\ m_search_mtx' = IF sctl.mode = "drain" /\ ~ret /\ ~thrown
                       THEN FALSE ELSE m_search_mtx

\* sync.search() is called
SSearchCall ==
  /\ spc = "idle"
  /\ spc' = "call"
  /\ sctl' = [NoCall EXCEPT !.mode = "search", !.next_t0 = m_next_t,
                             !.len0 = SetMin({Len(queue[k]) : k \in DOMAIN queue})]
  /\ UNCHANGED <<syncvars, loc>>
  /\ UNCHANGED notSteps

\* sync.add<k>(el), outside any call of search
SAdd(k, t) ==
  /\ spc = "idle"
  /\ queue' = [queue EXCEPT ![k] = AddQueue(@, m_next_t, NewEl(k, t))]
  /\ nadd' = [nadd EXCEPT ![k] = @ + 1]
  /\ UNCHANGED <<search_idx, optimal_idx, m_next_t, m_delta_t, m_search_mtx,
                 accepted, rejected, calls, last>>
  /\ UNCHANGED stepvars
  /\ UNCHANGED notSteps

\* sync.add_and_search<k>(el): add<k>(el), try_lock, and the drain loop begins
SAddAndSearch(k, t) ==
  LET q == [queue EXCEPT ![k] = AddQueue(@, m_next_t, NewEl(k, t))]
  IN  /\ spc = "idle"
      /\ queue' = q
      /\ nadd' = [nadd EXCEPT ![k] = @ + 1]
      /\ IF ~m_search_mtx  \* try_lock succeeds
           THEN /\ m_search_mtx' = TRUE
                /\ spc' = "call"
                /\ sctl' = [NoCall EXCEPT !.mode = "drain", !.next_t0 = m_next_t,
                                          !.len0 = SetMin({Len(q[j]) : j \in DOMAIN q})]
           ELSE UNCHANGED <<m_search_mtx, spc, sctl>>
      /\ UNCHANGED <<search_idx, optimal_idx, m_next_t, m_delta_t,
                     accepted, rejected, calls, last, loc>>
      /\ UNCHANGED notSteps

\* keep_n_before_time(0, m_next_t)
SEntry ==
  /\ spc = "call"
  /\ queue' = KeepQueues(queue, 0, m_next_t)
  /\ calls' = calls \o KeepCalls(queue, 0, m_next_t)
  /\ spc' = "entry"
  /\ sctl' = [sctl EXCEPT !.nsearch = @ + 1, !.next_t0 = m_next_t]
  /\ UNCHANGED <<search_idx, optimal_idx, m_next_t, m_delta_t, m_search_mtx,
                 nadd, accepted, rejected, last, loc>>
  /\ UNCHANGED notSteps

\* the check for an empty queue, the pivot and keep_n_before_time(1, pivot_time)
SBookKeeping ==
  /\ spc = "entry"
  /\ IF ~one_of_every_type(queue)
       THEN Return(FALSE, FALSE, FALSE) /\ UNCHANGED <<queue, calls>>
       ELSE IF ~AllInRange(queue, search_idx)
         THEN Return(FALSE, TRUE, FALSE) /\ UNCHANGED <<queue, calls>>
         ELSE \E pivot_time \in {max_first_time(queue, search_idx)} :
                /\ queue' = KeepQueues(queue, 1, pivot_time)
                /\ calls' = calls \o KeepCalls(queue, 1, pivot_time)
                /\ loc' = [NoLocals EXCEPT
                            !.pivot_time = pivot_time,
                            !.ntrim = Len(KeepCalls(queue, 1, pivot_time))]
                /\ spc' = "trimmed"
                /\ UNCHANGED <<sctl, m_search_mtx>>
  /\ UNCHANGED <<search_idx, optimal_idx, m_next_t, m_delta_t,
                 nadd, accepted, rejected, last>>
  /\ UNCHANGED notSteps

\* the check `searchable` and the base case of the search
SSearchable ==
  /\ spc = "trimmed"
  /\ IF ~Searchable(queue, loc.pivot_time)
       THEN Return(FALSE, FALSE, FALSE)
       ELSE IF ~AllInRange(queue, search_idx)
         THEN Return(FALSE, TRUE, FALSE)
         ELSE \E min_t \in {min_first_time(queue, search_idx)} :
                /\ loc' = [loc EXCEPT !.min_t = min_t, !.max_t = loc.pivot_time,
                                      !.min_t_best = min_t,
                                      !.max_t_best = loc.pivot_time]
                /\ spc' = "loop"
                /\ UNCHANGED <<sctl, m_search_mtx>>
  /\ UNCHANGED <<queue, calls, search_idx, optimal_idx, m_next_t, m_delta_t,
                 nadd, accepted, rejected, last>>
  /\ UNCHANGED notSteps

\* while (min_t < pivot_time): the test holds and the body runs once
SLoop ==
  /\ spc = "loop"
  /\ loc.min_t < loc.pivot_time
  /\ \E g \in {LoopBody(queue, loc.pivot_time, Locals)} :
       /\ search_idx' = g.search_idx
       /\ optimal_idx' = g.optimal_idx
       /\ IF g.thrown
            THEN Return(FALSE, TRUE, FALSE)
            ELSE /\ loc' = [loc EXCEPT !.min_t = g.min_t, !.max_t = g.max_t,
                                       !.min_t_best = g.min_t_best,
                                       !.max_t_best = g.max_t_best,
                                       !.iters = g.iters, !.brk = g.brk]
                 /\ spc' = IF g.brk THEN "commit" ELSE "loop"
                 /\ UNCHANGED <<sctl, m_search_mtx>>
  /\ UNCHANGED <<queue, calls, m_next_t, m_delta_t, nadd, accepted, rejected, last>>
  /\ UNCHANGED notSteps

\* while (min_t < pivot_time): the test fails
SLoopEnd ==
  /\ spc = "loop"
  /\ ~(loc.min_t < loc.pivot_time)
  /\ spc' = "commit"
  /\ UNCHANGED <<syncvars, loc, sctl>>
  /\ UNCHANGED notSteps

\* mutant: the indices are not reset
SCommitKeepsIdx ==
  /\ spc = "commit"
  /\ \E c \in {Commit(queue, loc.pivot_time, Locals, m_delta_t, <<>>)} :
       \E r \in Undefined(c) :
         /\ queue' = r.queue
         /\ m_next_t' = r.next_t
         /\ calls' = calls \o r.calls
         /\ Return(r.ret, FALSE, r.undef)
  /\ UNCHANGED <<search_idx, optimal_idx, m_delta_t, nadd, accepted, rejected, last>>
  /\ UNCHANGED notSteps

\* everything after the while loop
SCommit ==
  /\ spc = "commit"
  /\ \E c \in {Commit(queue, loc.pivot_time, Locals, m_delta_t, <<>>)} :
       \E r \in Undefined(c) :
         /\ queue' = r.queue
         /\ search_idx' = r.search_idx
         /\ optimal_idx' = r.optimal_idx
         /\ m_next_t' = r.next_t
         /\ calls' = calls \o r.calls
         /\ Return(r.ret, FALSE, r.undef)
  /\ UNCHANGED <<m_delta_t, nadd, accepted, rejected, last>>
  /\ UNCHANGED notSteps

NextSteps ==
  \/ \E k \in StreamsS, t \in 0 .. MaxTS :
       nadd[k] < MaxAddS /\ SAdd(k, t)
  \/ \E k \in StreamsS, t \in 0 .. MaxTS : nadd[k] < MaxAddS /\ SAddAndSearch(k, t)
  \/ SSearchCall
  \/ SEntry
  \/ SBookKeeping
  \/ SSearchable
  \/ SLoop
  \/ SLoopEnd
  \/ SCommit

\* the objects after construction, the synchronizer having NS streams
InitSteps ==
  /\ InitStreams(StreamsS)
  /\ m_delta_t <= MaxDeltaS
  /\ InitPool
  /\ InitTimer
  /\ InitLoop(FALSE, 1)

SpecSteps == InitSteps /\ [][NextSteps]_vars

\* the statements of a call that has begun: the calling thread runs them to
\* the end (callbacks and time functions return)
RunSearch ==
  SEntry \/ SBookKeeping \/ SSearchable \/ SLoop \/ SLoopEnd \/ SCommit

SpecStepsFair == SpecSteps /\ WF_vars(RunSearch)

----------------------------------------------------------------------------
(* Threads that use the object through add_and_search alone.  Each call is  *)
(* a sequence of steps: add reads next_t and the back of its queue, add     *)
(* appends, try_lock, every search() of the drain loop (entered, then       *)
(* carried out), unlock.  Nothing orders an insertion against a running     *)
(* search or against another insertion: both use the deques and next_t      *)
(* without a lock.  Such a data race is undefined behaviour: once one has   *)
(* happened an insertion may take effect or be lost, and the process may    *)
(* die.                                                                     *)

\* a thread is between the reads and the emplace_back of add while another
\* thread is inside search(), or inside add on the same queue
Overlap(p, e) ==
  \E a \in Threads, b \in Threads :
    /\ a # b
    /\ p[a] = "push"
    /\ \/ p[b] = "in_search"
       \/ p[b] = "push" /\ e[a].s = e[b].s

\* thread th moves on to `to` (tel changes only for a thread that is idle)
Goto(th, to) ==
  /\ pc' = [pc EXCEPT ![th] = to]
  /\ raced' = (raced \/ Overlap(pc', tel))
  /\ UNCHANGED crashed

\* thread th calls sync.add_and_search<k>(el)
ThCall(th, k, t) ==
  /\ ~crashed /\ pc[th] = "idle"
  /\ tel' = [tel EXCEPT ![th] = NewEl(k, t)]
  /\ tacc' = [tacc EXCEPT ![th] = FALSE]
  /\ theld' = [theld EXCEPT ![th] = m_search_mtx]
  /\ nadd' = [nadd EXCEPT ![k] = @ + 1]
  /\ Goto(th, "add")
  /\ UNCHANGED <<queue, search_idx, optimal_idx, m_next_t, m_delta_t, m_search_mtx,
                 accepted, rejected, calls>>
  /\ UNCHANGED notThreads

\* add: the two early returns, decided on next_t and the back of the queue
\* as thread th reads them
ThAddCheck(th) ==
  LET el == tel[th]
      ok == AddAccepts(queue[el.s], m_next_t, el)
  IN  /\ ~crashed /\ pc[th] = "add"
      /\ tacc' = [tacc EXCEPT ![th] = ok]
      /\ rejected' = IF ok THEN rejected
                           ELSE rejected \cup {[el |-> el,
                                                why |-> IF TooOld(m_next_t, el)
                                                          THEN "too_old" ELSE "not_monotonic"]}
      /\ Goto(th, IF ok THEN "push" ELSE "try_lock")
      /\ UNCHANGED <<queue, search_idx, optimal_idx, m_next_t, m_delta_t, m_search_mtx,
                     nadd, accepted, calls, tel, theld>>
      /\ UNCHANGED notThreads

\* what emplace_back does: it appends, unless a data race has made the
\* behaviour undefined
PushOutcomes(th) == IF raced THEN {"pushed", "lost"} ELSE {"pushed"}

\* add: m_impl.queue.emplace_back(el)
ThAddPush(th) ==
  LET el == tel[th]
  IN  /\ ~crashed /\ pc[th] = "push"
      /\ \E outcome \in PushOutcomes(th) :
           /\ queue' = IF outcome = "pushed"
                          THEN [queue EXCEPT ![el.s] = Append(@, el)] ELSE queue
           /\ accepted' = IF outcome = "pushed"
                             THEN [accepted EXCEPT ![el.s] = Append(@, el)] ELSE accepted
      /\ Goto(th, "try_lock")
      /\ UNCHANGED <<search_idx, optimal_idx, m_next_t, m_delta_t, m_search_mtx,
                     nadd, rejected, calls, tel, tacc, theld>>
      /\ UNCHANGED notThreads

\* mutant: the lock is taken whether or not it is free
TryLockAlways(mtx) == TRUE

\* std::mutex::try_lock succeeds exactly when the mutex is free
TryLock(mtx) == ~mtx

\* if (m_search_mtx.try_lock()) { ... }: on failure the call returns
ThTryLock(th) ==
  /\ ~crashed /\ pc[th] = "try_lock"
  /\ IF TryLock(m_search_mtx)
       THEN m_search_mtx' = TRUE /\ Goto(th, "search")
       ELSE UNCHANGED m_search_mtx /\ Goto(th, "idle")
  /\ UNCHANGED <<queue, search_idx, optimal_idx, m_next_t, m_delta_t,
                 nadd, accepted, rejected, calls, tel, tacc, theld>>
  /\ UNCHANGED notThreads

\* while (search_more) { search_more = search(); }: search() is entered
ThSearchBegin(th) ==
  /\ ~crashed /\ pc[th] = "search"
  /\ Goto(th, "in_search")
  /\ UNCHANGED <<syncvars, poolvars, timervars, loopvars, stepvars, tel, tacc, theld>>

\* search() is carried out and returns; an exception leaves add_and_search
\* before unlock()
ThSearchEnd(th) ==
  /\ ~crashed /\ pc[th] = "in_search"
  /\ \E s \in {Search(queue, search_idx, optimal_idx, m_next_t, m_delta_t)} :
       \E r \in Undefined(s) :
         /\ queue' = r.queue
         /\ search_idx' = r.search_idx
         /\ optimal_idx' = r.optimal_idx
         /\ m_next_t' = r.next_t
         /\ calls' = calls \o r.calls
         /\ Goto(th, IF r.ret THEN "search"
                     ELSE IF r.thrown \/ r.undef THEN "idle" ELSE "unlock")
  /\ UNCHANGED <<m_delta_t, m_search_mtx, nadd, accepted, rejected, tel, tacc, theld>>
  /\ UNCHANGED notThreads

\* m_search_mtx.unlock(), and the call returns
ThUnlock(th) ==
  /\ ~crashed /\ pc[th] = "unlock"
  /\ m_search_mtx' = FALSE
  /\ Goto(th, "idle")
  /\ UNCHANGED <<queue, search_idx, optimal_idx, m_next_t, m_delta_t,
                 nadd, accepted, rejected, calls, tel, tacc, theld>>
  /\ UNCHANGED notThreads

\* undefined behaviour: the process dies
ThCrash ==
  /\ raced /\ ~crashed
  /\ crashed' = TRUE
  /\ UNCHANGED <<syncvars, poolvars, timervars, loopvars, stepvars, pc, tel, tacc, theld, raced>>

NextThreads ==
  \/ \E th \in Threads, k \in Streams, t \in 0 .. MaxTT :
       nadd[k] < MaxAddT /\ ThCall(th, k, t)
  \/ \E th \in Threads : ThAddCheck(th)
  \/ \E th \in Threads : ThAddPush(th)
  \/ \E th \in Threads : ThTryLock(th)
  \/ \E th \in Threads : ThSearchBegin(th)
  \/ \E th \in Threads : ThSearchEnd(th)
  \/ \E th \in Threads : ThUnlock(th)
  \/ ThCrash

SpecThreads == Init /\ [][NextThreads]_vars

----------------------------------------------------------------------------
(* cbr::ThreadPool (include/cbr_utils/thread_pool.hpp): NWorkers workers   *)
(* run the loop of the constructor's lambda; the owning thread enqueues    *)
(* tasks and then runs the destructor.  Tasks are numbered 1, 2, ... in    *)
(* the order enqueue accepts them.                                         *)

\* the predicate handed to m_cv.wait
WaitPred(stop, tasks) == stop \/ tasks # <<>>

\* mutant: a worker leaves as soon as the pool is stopped
WorkerExitsOnStop(stop, tasks) == stop

\* if (this->m_stop && this->m_tasks.empty()) { return; }
WorkerExits(stop, tasks) == stop /\ tasks = <<>>

\* std::unique_lock lock(this->m_mtx)
WLock(w) ==
  /\ m_workers[w] = "lock" /\ m_mtx = -1
  /\ m_mtx' = w
  /\ m_workers' = [m_workers EXCEPT ![w] = "locked"]
  /\ UNCHANGED <<m_tasks, m_stop, m_cv, task, owner, nenq, joined, taken, ran>>
  /\ UNCHANGED notPool

\* m_cv.wait(lock, pred): with the lock held the predicate is evaluated;
\* when it is false the lock is released and the worker blocks
WWait(w) ==
  /\ m_workers[w] = "locked"
  /\ IF WaitPred(m_stop, m_tasks)
       THEN /\ m_workers' = [m_workers EXCEPT ![w] = "check"]
            /\ UNCHANGED <<m_mtx, m_cv>>
       ELSE /\ m_workers' = [m_workers EXCEPT ![w] = "waiting"]
            /\ m_mtx' = -1
            /\ m_cv' = m_cv \cup {w}
  /\ UNCHANGED <<m_tasks, m_stop, task, owner, nenq, joined, taken, ran>>
  /\ UNCHANGED notPool

\* a blocked worker wakes without a notification, as wait may
WSpurious(w) ==
  /\ m_workers[w] = "waiting" /\ w \in m_cv
  /\ m_cv' = m_cv \ {w}
  /\ UNCHANGED <<m_tasks, m_stop, m_mtx, m_workers, task, owner, nenq, joined, taken, ran>>
  /\ UNCHANGED notPool

\* a woken worker takes the lock again and goes back to the predicate
WWake(w) ==
  /\ m_workers[w] = "waiting" /\ w \notin m_cv /\ m_mtx = -1
  /\ m_mtx' = w
  /\ m_workers' = [m_workers EXCEPT ![w] = "locked"]
  /\ UNCHANGED <<m_tasks, m_stop, m_cv, task, owner, nenq, joined, taken, ran>>
  /\ UNCHANGED notPool

\* the rest of the locked block: return, or move the front task out and pop
WTake(w) ==
  /\ m_workers[w] = "check"
  /\ m_mtx' = -1
  /\ IF WorkerExits(m_stop, m_tasks)
       THEN /\ m_workers' = [m_workers EXCEPT ![w] = "exited"]
            /\ UNCHANGED <<m_tasks, task, taken>>
       ELSE /\ m_tasks # <<>>
            /\ task' = [task EXCEPT ![w] = Head(m_tasks)]
            /\ m_tasks' = Tail(m_tasks)
            /\ taken' = Append(taken, Head(m_tasks))
            /\ m_workers' = [m_workers EXCEPT ![w] = "run"]
  /\ UNCHANGED <<m_stop, m_cv, owner, nenq, joined, ran>>
  /\ UNCHANGED notPool

\* task(), outside the lock; then the loop starts over
WRun(w) ==
  /\ m_workers[w] = "run"
  /\ ran' = Append(ran, <<task[w], w>>)
  /\ m_workers' = [m_workers EXCEPT ![w] = "lock"]
  /\ UNCHANGED <<m_tasks, m_stop, m_mtx, m_cv, task, owner, nenq, joined, taken>>
  /\ UNCHANGED notPool

\* enqueue: std::scoped_lock lock(m_mtx)
EnqueueLock ==
  /\ owner = "use" /\ nenq < MaxTasks /\ m_mtx = -1
  /\ m_mtx' = Owner
  /\ owner' = "enqueue"
  /\ UNCHANGED <<m_tasks, m_stop, m_cv, m_workers, task, nenq, joined, taken, ran>>
  /\ UNCHANGED notPool

\* enqueue: throw on a stopped pool, else m_tasks.emplace; the lock is released
EnqueuePush ==
  /\ owner = "enqueue"
  /\ m_mtx' = -1
  /\ IF m_stop
       THEN owner' = "use" /\ UNCHANGED <<m_tasks, nenq>>
       ELSE /\ m_tasks' = Append(m_tasks, nenq + 1)
            /\ nenq' = nenq + 1
            /\ owner' = "notify_one"
  /\ UNCHANGED <<m_stop, m_cv, m_workers, task, joined, taken, ran>>
  /\ UNCHANGED notPool

\* m_cv.notify_one(): the wait sets it may leave behind
NotifyOne(cv) == IF cv = {} THEN {cv} ELSE {cv \ {w} : w \in cv}

\* enqueue: m_cv.notify_one(), and the call returns
EnqueueNotify ==
  /\ owner = "notify_one"
  /\ m_cv' \in NotifyOne(m_cv)
  /\ owner' = "use"
  /\ UNCHANGED <<m_tasks, m_stop, m_mtx, m_workers, task, nenq, joined, taken, ran>>
  /\ UNCHANGED notPool

\* ~ThreadPool: std::scoped_lock lock(m_mtx)
DtorLock ==
  /\ owner = "use" /\ m_mtx = -1
  /\ m_mtx' = Owner
  /\ owner' = "stop"
  /\ UNCHANGED <<m_tasks, m_stop, m_cv, m_workers, task, nenq, joined, taken, ran>>
  /\ UNCHANGED notPool

\* ~ThreadPool: m_stop = true; the lock is released
DtorStop ==
  /\ owner = "stop"
  /\ m_stop' = TRUE
  /\ m_mtx' = -1
  /\ owner' = "notify_all"
  /\ UNCHANGED <<m_tasks, m_cv, m_workers, task, nenq, joined, taken, ran>>
  /\ UNCHANGED notPool

\* ~ThreadPool: m_cv.notify_all()
DtorNotify ==
  /\ owner = "notify_all"
  /\ m_cv' = {}
  /\ owner' = "join"
  /\ UNCHANGED <<m_tasks, m_stop, m_mtx, m_workers, task, nenq, joined, taken, ran>>
  /\ UNCHANGED notPool

\* ~ThreadPool: for (std::thread & worker : m_workers) { worker.join(); }
DtorJoin ==
  /\ owner = "join"
  /\ IF joined = NWorkers
       THEN owner' = "destroyed" /\ UNCHANGED joined
       ELSE /\ m_workers[joined + 1] = "exited"
            /\ joined' = joined + 1
            /\ UNCHANGED owner
  /\ UNCHANGED <<m_tasks, m_stop, m_mtx, m_cv, m_workers, task, nenq, taken, ran>>
  /\ UNCHANGED notPool

\* one step of worker w that is not a spurious wake-up
Worker(w) == WLock(w) \/ WWait(w) \/ WWake(w) \/ WTake(w) \/ WRun(w)

\* one step of the destructor
Dtor == DtorLock \/ DtorStop \/ DtorNotify \/ DtorJoin

\* one step of enqueue
Enqueue == EnqueueLock \/ EnqueuePush \/ EnqueueNotify

NextPool ==
  \/ \E w \in Workers : WLock(w)
  \/ \E w \in Workers : WWait(w)
  \/ \E w \in Workers : WSpurious(w)
  \/ \E w \in Workers : WWake(w)
  \/ \E w \in Workers : WTake(w)
  \/ \E w \in Workers : WRun(w)
  \/ EnqueueLock \/ EnqueuePush \/ EnqueueNotify
  \/ DtorLock \/ DtorStop \/ DtorNotify \/ DtorJoin

\* every thread keeps being scheduled, and a thread blocked in lock() gets
\* the mutex when it is released again and again (strong fairness: the step
\* that takes the lock is enabled only while the mutex is free); a call of
\* enqueue that has begun runs to its end, and the owner ends by destroying
\* the pool.  Spurious wake-ups may happen but need not.
SpecPool ==
  /\ Init /\ [][NextPool]_vars
  /\ \A w \in Workers : SF_vars(Worker(w))
  /\ WF_vars(EnqueuePush \/ EnqueueNotify)
  /\ SF_vars(Dtor)

----------------------------------------------------------------------------
(* cbr::CyberTimer<std::micro, double, CyberClock> (cyber_timer.hpp, with  *)
(* the clock of test/cyber_clock.hpp).  Every call is modelled through its  *)
(* overload that takes the time point; the overload without one passes     *)
(* clock_->now().                                                          *)

TimePoints == 0 .. MaxClock

\* ClockTraits<CyberClock>::duration_cast<duration_t>: milliseconds to the
\* timer's unit; the result is the count() of the duration
duration_cast(d) == d * UnitsPerTick

\* tac_chrono(t_now)
tac_chrono(start, t_now) == duration_cast(t_now - start)

\* mutant: the timer is not looked at: every toc takes a sample
TocChronoAlways(run, start, dt, i, sum, t_stop) ==
  [running_ |-> FALSE, dt_ |-> tac_chrono(start, t_stop),
   i_ |-> i + 1, avg_sum |-> sum + tac_chrono(start, t_stop)]

\* toc_chrono(t_stop): the fields afterwards (dt_ is what it returns);
\* compute_avg makes avg_ the mean of the i_ samples
toc_chrono(run, start, dt, i, sum, t_stop) ==
  IF run
    THEN [running_ |-> FALSE, dt_ |-> tac_chrono(start, t_stop),
          i_ |-> i + 1, avg_sum |-> sum + tac_chrono(start, t_stop)]
    ELSE [running_ |-> run, dt_ |-> dt, i_ |-> i, avg_sum |-> sum]

\* tmr.tic(t_start)
Tic(t) ==
  /\ t_start_' = t
  /\ running_' = TRUE
  /\ tlast' = [tlast EXCEPT !.op = "tic", !.t = t, !.ret = 0]
  /\ UNCHANGED <<dt_, i_, avg_sum, ntoc>>
  /\ UNCHANGED notTimer

\* tmr.toc(t_stop)
Toc(t) ==
  LET r == toc_chrono(running_, t_start_, dt_, i_, avg_sum, t)
  IN  /\ running_' = r.running_
      /\ dt_' = r.dt_
      /\ i_' = r.i_
      /\ avg_sum' = r.avg_sum
      /\ ntoc' = IF running_ THEN ntoc + 1 ELSE ntoc
      /\ tlast' = [op |-> "toc", t |-> t, ret |-> r.dt_,
                   toced |-> TRUE, tocret |-> r.dt_]
      /\ UNCHANGED t_start_
      /\ UNCHANGED notTimer

\* tmr.toc_tic(t_stop): toc_chrono(t_stop); tic(t_stop); return dt_
TocTic(t) ==
  LET r == toc_chrono(running_, t_start_, dt_, i_, avg_sum, t)
  IN  /\ running_' = TRUE
      /\ t_start_' = t
      /\ dt_' = r.dt_
      /\ i_' = r.i_
      /\ avg_sum' = r.avg_sum
      /\ ntoc' = IF running_ THEN ntoc + 1 ELSE ntoc
      /\ tlast' = [op |-> "toc_tic", t |-> t, ret |-> r.dt_,
                   toced |-> TRUE, tocret |-> r.dt_]
      /\ UNCHANGED notTimer

\* tmr.stop()
Stop ==
  /\ running_' = FALSE
  /\ tlast' = [tlast EXCEPT !.op = "stop", !.t = 0, !.ret = 0]
  /\ UNCHANGED <<t_start_, dt_, i_, avg_sum, ntoc>>
  /\ UNCHANGED notTimer

\* tmr.restart(t_start): avg_ = 0; i_ = 0; tic(t_start)
Restart(t) ==
  /\ avg_sum' = 0
  /\ i_' = 0
  /\ t_start_' = t
  /\ running_' = TRUE
  /\ ntoc' = 0
  /\ tlast' = [tlast EXCEPT !.op = "restart", !.t = t, !.ret = 0]
  /\ UNCHANGED dt_
  /\ UNCHANGED notTimer

NextTimer ==
  \/ \E t \in TimePoints : Tic(t)
  \/ \E t \in TimePoints : i_ < MaxCount /\ Toc(t)
  \/ \E t \in TimePoints : i_ < MaxCount /\ TocTic(t)
  \/ Stop
  \/ \E t \in TimePoints : Restart(t)

SpecTimer == Init /\ [][NextTimer]_vars

----------------------------------------------------------------------------
(* cbr::LoopTimer<std::chrono::high_resolution_clock, steady>              *)
(* (loop_timer.hpp).  The clock moves only forward, std::this_thread::     *)
(* sleep_for returns after exactly the time asked for, and the statements  *)
(* of wait() themselves take no time.                                      *)

\* ClockTraits<clock_t>::duration_cast<std::chrono::nanoseconds>
duration_cast_ns(d) == d * NanosPerTick

\* mutant: sleep_for returns at once
SleepForNothing(t, ns) == t

\* std::this_thread::sleep_for(wait_time): the time the clock shows afterwards
sleep_for(t, ns) == t + ns \div NanosPerTick

\* m_tNm1 + m_rate
tTarget == m_tNm1 + m_rate

\* timer.wait()
Wait ==
  LET tNow == m_clock
      wait_time == duration_cast_ns(tTarget - tNow)
      sleeps == m_count > 0 /\ tNow < tTarget
  IN  /\ m_count < MaxWaits
      /\ tTarget <= MaxNow
      /\ m_tNm1' = IF m_count > 0
                     THEN IF steady \/ tNow < tTarget THEN tTarget ELSE tNow
                     ELSE tNow
      /\ m_clock' = IF sleeps THEN sleep_for(m_clock, wait_time) ELSE m_clock
      /\ m_count' = m_count + 1
      /\ nwait' = nwait + 1
      /\ slept' = IF sleeps THEN wait_time ELSE 0
      /\ yield_t' = m_clock'
      /\ prev_yield' = yield_t
      /\ first_yield' = IF nwait = 0 THEN m_clock' ELSE first_yield
      /\ UNCHANGED <<steady, m_rate>>
      /\ UNCHANGED notLoop

\* the loop body between two calls of wait takes d
Elapse(d) ==
  /\ m_clock + d <= MaxNow
  /\ m_clock' = m_clock + d
  /\ UNCHANGED <<steady, m_rate, m_tNm1, m_count, nwait, slept, yield_t,
                 prev_yield, first_yield>>
  /\ UNCHANGED notLoop

NextLoop ==
  \/ Wait
  \/ \E d \in 1 .. MaxElapse : Elapse(d)

SpecLoop == InitLoopTimers /\ [][NextLoop]_vars

----------------------------------------------------------------------------
(* Observations on the record of callbacks *)

RECURSIVE Flatten(_)
\* the elements handed to callbacks, in the order handed
Flatten(cs) == IF cs = <<>> THEN <<>> ELSE cs[1].els \o Flatten(Tail(cs))

Range(f) == {f[i] : i \in DOMAIN f}
Matches(cs) == SelectSeq(cs, LAMBDA c : c.kind = "match")
Drops(cs) == SelectSeq(cs, LAMBDA c : c.kind = "drop")
MatchedEls == Range(Flatten(Matches(calls)))
DroppedEls == Range(Flatten(Drops(calls)))
Sorted(q) == \A i \in 1 .. (Len(q) - 1) : time_fcn(q[i]) <= time_fcn(q[i + 1])

----------------------------------------------------------------------------
(* C1: after any sequence of add, search and add_and_search calls every    *)
(* queue is sorted by timestamp, non-decreasing from front to back, and an *)
(* element that add rejected as older than the back of its queue is in no  *)
(* tuple handed to the match callback.                                     *)
C1_SortedAndRejectedNeverMatched ==
  /\ \A k \in Streams : Sorted(queue[k])
  /\ \A r \in rejected : r.why = "not_monotonic" => r.el \notin MatchedEls

\* a match has fired after add refused an out-of-order element, and a queue
\* holds several elements
C1_Witness ==
  /\ \E r \in rejected : r.why = "not_monotonic"
  /\ last.op \in {"search", "add_and_search"} /\ last.found >= 1
  /\ \E k \in Streams : Len(queue[k]) >= 2

----------------------------------------------------------------------------
(* C2: add<k>(el) with t = time_fcn(el) appends el to the back of queue_k  *)
(* exactly when t >= next_t and (queue_k is empty or t >= the stamp of its *)
(* back); otherwise the element is discarded and nothing changes.  Either  *)
(* way no other queue, next_t, no search index changes and no callback is  *)
(* invoked.                                                                *)
C2_AddRule ==
  [][\A k \in Streams :
       (last'.op = "add" /\ nadd'[k] = nadd[k] + 1) =>
         LET el == last'.el
             t == el.t
             fits == /\ t >= m_next_t
                     /\ \/ queue[k] = <<>>
                        \/ t >= queue[k][Len(queue[k])].t
         IN  /\ el.s = k
             /\ last'.acc = fits
             /\ fits => queue'[k] = queue[k] \o <<el>>
             /\ ~fits => queue'[k] = queue[k]
             /\ \A j \in Streams \ {k} : queue'[j] = queue[j]
             /\ m_next_t' = m_next_t
             /\ search_idx' = search_idx /\ optimal_idx' = optimal_idx
             /\ calls' = calls /\ last'.calls = <<>>]_vars

\* add has just discarded an out-of-order element that is not older than
\* next_t, after an earlier element was discarded for being older than next_t
C2_Witness ==
  /\ last.op = "add" /\ ~last.acc
  /\ last.el.t >= m_next_t
  /\ queue[last.el.s] # <<>>
  /\ \E r \in rejected : r.why = "too_old"

----------------------------------------------------------------------------
(* C3: search() returns true, and then invokes the match callback exactly  *)
(* once, if and only if after its trimming steps every queue is non-empty  *)
(* and holds an element with stamp <= pivot and one with stamp >= pivot,   *)
(* the pivot being the largest front stamp; otherwise it returns false and *)
(* does not invoke the match callback.                                     *)
C3_MatchIffBracket ==
  [][last'.op = "search" =>
       LET q0 == KeepQueues(queue, 0, m_next_t)
           full == \A k \in Streams : q0[k] # <<>>
           pivot == SetMax({q0[k][1].t : k \in Streams})
           q1 == KeepQueues(q0, 1, pivot)
           bracket == /\ full
                      /\ \A k \in Streams :
                           /\ \E i \in 1 .. Len(q1[k]) : q1[k][i].t <= pivot
                           /\ \E i \in 1 .. Len(q1[k]) : q1[k][i].t >= pivot
       IN  /\ last'.ret <=> bracket
           /\ Len(Matches(last'.calls)) = IF bracket THEN 1 ELSE 0
           /\ Len(calls') = Len(calls) + Len(last'.calls)
           /\ ~last'.thrown]_vars

\* a search has matched after its greedy loop moved an index
C3_Witness == last.op = "search" /\ last.ret /\ last.iters >= 1

----------------------------------------------------------------------------
(* C4: every element search removes from a queue is handed to exactly one  *)
(* callback exactly once, the match callback or the drop callback of its   *)
(* own stream; an element handed to a drop callback is in no match tuple   *)
(* and no element is delivered twice.                                      *)
Count(seq, e) == Cardinality({i \in DOMAIN seq : seq[i] = e})

C4_RemovedDeliveredOnce ==
  LET handed == Flatten(calls)
  IN  /\ \A k \in Streams : \A i \in DOMAIN accepted[k] :
           Count(queue[k], accepted[k][i]) + Count(handed, accepted[k][i]) = 1
      /\ \A i \in DOMAIN calls :
           calls[i].kind = "drop" => calls[i].els[1].s = calls[i].stream
      /\ DroppedEls \cap MatchedEls = {}
      /\ \A i \in DOMAIN handed : Count(handed, handed[i]) = 1

\* one search has handed at least two elements to drop callbacks before it
\* delivered a tuple, and elements remain queued
C4_Witness ==
  /\ last.op = "search" /\ last.ret
  /\ Len(Drops(last.calls)) >= 2
  /\ \E k \in Streams : queue[k] # <<>>

----------------------------------------------------------------------------
(* C9 as stated: in every reachable state in which at least one queue is   *)
(* empty, search() returns false at once and fires no callback at all, and *)
(* no queue changes.                                                       *)
C9_Original ==
  [][(last'.op = "search" /\ \E k \in Streams : queue[k] = <<>>) =>
       /\ ~last'.ret
       /\ last'.calls = <<>> /\ calls' = calls
       /\ queue' = queue]_vars

(* C9, amended: in every reachable state in which at least one queue is    *)
(* empty, search() returns false and does not invoke the match callback;   *)
(* the callbacks it invokes are drop callbacks for the elements stamped at *)
(* or before next_t, which it removes, each queue keeping exactly its      *)
(* elements stamped after next_t; next_t and the indices are unchanged.    *)
C9_EmptyQueueNoMatch ==
  [][(last'.op = "search" /\ \E k \in Streams : queue[k] = <<>>) =>
       /\ ~last'.ret /\ ~last'.thrown
       /\ Matches(last'.calls) = <<>>
       /\ calls' = calls \o last'.calls
       /\ \A i \in DOMAIN last'.calls : last'.calls[i].els[1].t <= m_next_t
       /\ \A k \in Streams :
            /\ queue'[k] = SelectSeq(queue[k], LAMBDA e : e.t > m_next_t)
            /\ [i \in 1 .. (Len(queue[k]) - Len(queue'[k])) |-> DropCall(k, queue[k][i])]
                 = SelectSeq(last'.calls, LAMBDA c : c.stream = k)
       /\ m_next_t' = m_next_t
       /\ search_idx' = search_idx /\ optimal_idx' = optimal_idx]_vars

\* a search that met an empty queue (no callback of the call concerns that
\* stream) has nevertheless invoked a drop callback
C9_Witness ==
  /\ last.op = "search" /\ ~last.ret
  /\ last.calls # <<>>
  /\ \E k \in Streams :
       /\ queue[k] = <<>>
       /\ \A i \in DOMAIN last.calls : last.calls[i].stream # k

----------------------------------------------------------------------------
(* C10: position i of every tuple handed to the match callback holds an    *)
(* element that add accepted into stream i, and an element a match or drop *)
(* callback has received is in no queue any more.                          *)
C10_IdentityAndRelease ==
  /\ \A c \in Range(Matches(calls)) : \A i \in 1 .. N :
       /\ c.els[i].s = i - 1
       /\ c.els[i] \in Range(accepted[i - 1])
  /\ \A e \in Range(Flatten(calls)) : \A k \in Streams : e \notin Range(queue[k])

\* two tuples have been delivered and elements are still queued
C10_Witness ==
  /\ Len(Matches(calls)) >= 2
  /\ \E c \in Range(Matches(calls)) : c.els[1].n # c.els[2].n
  /\ \E k \in Streams : queue[k] # <<>>

----------------------------------------------------------------------------
(* Combinations of one element per queue *)

Stamps(c) == {c[k].t : k \in DOMAIN c}
Spread(c) == SetMax(Stamps(c)) - SetMin(Stamps(c))
Combos(qs) ==
  {c \in [DOMAIN qs -> UNION {Range(qs[k]) : k \in DOMAIN qs}] :
     \A k \in DOMAIN qs : c[k] \in Range(qs[k])}
\* the elements of q stamped after `time`
After(q, time) == SelectSeq(q, LAMBDA e : e.t > time)

(* C5 as stated: whenever search() returns true, the tuple it delivers has *)
(* the smallest max-minus-min spread among all combinations of one element *)
(* per queue that the queues held at the start of that call.               *)
C5_Original ==
  [][(last'.op = "search" /\ last'.ret) =>
       \A c \in Combos(queue) :
         Spread(Matches(last'.calls)[1].els) <= Spread(c)]_vars

(* C5, amended: whenever search() returns true, the tuple it delivers has  *)
(* the smallest spread among the combinations of one element per queue,    *)
(* taken from the elements stamped after next_t that the queues held at    *)
(* the start of the call, whose earliest stamp is not after the pivot (the *)
(* largest front stamp once the elements at or before next_t are gone).    *)
C5_SmallestSpreadUpToPivot ==
  [][(last'.op = "search" /\ last'.ret) =>
       LET q0 == [k \in Streams |-> After(queue[k], m_next_t)]
           pivot == SetMax({q0[k][1].t : k \in Streams})
       IN  \A c \in Combos(q0) :
             SetMin(Stamps(c)) <= pivot =>
               Spread(Matches(last'.calls)[1].els) <= Spread(c)]_vars

\* a search stopped its loop early and delivered a tuple of unequal stamps
\* while later elements stayed queued
C5_Witness ==
  /\ last.op = "search" /\ last.ret /\ last.brk
  /\ Spread(Matches(last.calls)[1].els) > 0
  /\ \A k \in Streams : queue[k] # <<>>

----------------------------------------------------------------------------
(* C7: the representative stamp min_t_best of a successful search that     *)
(* follows an earlier one is not less than the next_t the earlier one      *)
(* established (its min_t_best + delta_t, kept until then), and add        *)
(* refuses every element stamped below the current next_t.                 *)
C7_MinimumGap ==
  [][/\ (last'.op = "search" /\ last'.ret) =>
          /\ Matches(calls) # <<>> => last'.min_t_best >= m_next_t
          /\ m_next_t' = last'.min_t_best + m_delta_t
     /\ (last'.op = "add" \/ (last'.op = "search" /\ ~last'.ret)) =>
          m_next_t' = m_next_t
     /\ (last'.op \in {"add", "add_and_search"} /\ last'.el.t < m_next_t) =>
          /\ ~last'.acc
          /\ last'.op = "add" => queue' = queue
          /\ \A k \in Streams : last'.el \notin Range(queue'[k])
          /\ last'.el \notin Range(Flatten(last'.calls))]_vars

\* a second match under a positive delta_t, after add turned away an element
\* stamped below next_t
C7_Witness ==
  /\ last.op = "search" /\ last.ret
  /\ Len(Matches(calls)) >= 2
  /\ m_delta_t > 0
  /\ \E r \in rejected : r.why = "too_old"

----------------------------------------------------------------------------
(* C6: with delta_t = 0 and identity time functions, when every stream is  *)
(* fed 0, 1, ..., k in order through add_and_search, in any interleaving,  *)
(* the match callback is invoked exactly k + 1 times, with the tuples      *)
(* (0, ..., 0), ..., (k, ..., k) in that order, and no drop callback is    *)
(* invoked.  Stated for every prefix of the feed: the callbacks so far are *)
(* exactly the matches of the indices every stream has received.           *)
FedByAll == SetMin({nadd[k] : k \in Streams})

C6_CommonIndex ==
  /\ calls = [i \in 1 .. FedByAll |->
                [kind |-> "match", stream |-> N,
                 els |-> [j \in 1 .. N |-> [s |-> j - 1, n |-> i, t |-> i - 1]]]]
  /\ (\A k \in Streams : nadd[k] = FeedK + 1) =>
       /\ Len(Matches(calls)) = FeedK + 1
       /\ Drops(calls) = <<>>
       /\ \A i \in 1 .. (FeedK + 1) : Stamps(calls[i].els) = {i - 1}

\* the whole feed has been handed over and the last call produced the last
\* match
C6_Witness ==
  /\ \A k \in Streams : nadd[k] = FeedK + 1
  /\ Len(calls) = FeedK + 1
  /\ last.op = "add_and_search" /\ last.found = 1

----------------------------------------------------------------------------
(* C8: delta_t is the minimal time between synchronized sets: for any two  *)
(* consecutive invocations of the match callback, the smallest stamp of    *)
(* the later tuple is at least delta_t greater than the smallest stamp of  *)
(* the earlier tuple.                                                      *)
C8_Original ==
  LET ms == Matches(calls)
  IN  \A i \in 1 .. (Len(ms) - 1) :
        SetMin(Stamps(ms[i + 1].els)) >= SetMin(Stamps(ms[i].els)) + m_delta_t

----------------------------------------------------------------------------
(* C11: in single-threaded use add_and_search drains every match that is   *)
(* possible: a search() called right after add_and_search has returned     *)
(* returns false, invokes no callback and leaves every queue and next_t    *)
(* as they were; so does a search() called right after a search() that     *)
(* returned false.                                                         *)
C11_DrainedThenIdle ==
  [][(/\ last'.op = "search"
      /\ \/ last.op = "add_and_search"
         \/ last.op = "search" /\ ~last.ret) =>
       /\ ~last'.ret /\ ~last'.thrown
       /\ last'.calls = <<>> /\ calls' = calls
       /\ queue' = queue
       /\ m_next_t' = m_next_t]_vars

\* search() has run right after an add_and_search that left elements in
\* every queue, once a tuple had been delivered
C11_Witness ==
  /\ last.op = "search" /\ last.prev = "add_and_search"
  /\ Matches(calls) # <<>>
  /\ \A k \in Streams : queue[k] # <<>>

----------------------------------------------------------------------------
(* The threads between a successful try_lock and the matching unlock *)
Searching == {th \in Threads : pc[th] \in {"search", "in_search", "unlock"}}

(* C12: when every thread uses the synchronizer through add_and_search     *)
(* alone, at most one thread is between a successful try_lock and the      *)
(* matching unlock, at any time and under every interleaving; the mutex is *)
(* locked while a thread is there.                                         *)
C12_OneSearcher ==
  /\ Cardinality(Searching) <= 1
  /\ Searching # {} => m_search_mtx

\* one thread is inside search() while another has inserted and is about to
\* try the lock
C12_Witness ==
  \E a \in Threads, b \in Threads :
    /\ pc[a] = "in_search"
    /\ pc[b] = "try_lock" /\ tacc[b]

----------------------------------------------------------------------------
(* C13: add_and_search is thread-safe: no thread is inside the insertion   *)
(* of add (between its reads and its emplace_back) on a queue while        *)
(* another thread's search is running, and no two threads are inside the   *)
(* insertion into the same queue at the same time.                         *)
C13_Original == ~Overlap(pc, tel)

----------------------------------------------------------------------------
----------------------------------------------------------------------------
(* C15: no single-threaded sequence of add, search and add_and_search      *)
(* calls makes search fail with an exception: no deque::at is handed an    *)
(* index at or past the size of its queue (the trim index, search_idx and  *)
(* optimal_idx alike, the greedy loop included), and front() and           *)
(* pop_front() are applied to non-empty queues only; the search lock is    *)
(* never left locked.                                                      *)
C15_NoException ==
  /\ ~last.thrown
  /\ ~last.undef
  /\ ~m_search_mtx

\* a search has advanced an index in its loop, dropped an element, delivered
\* a tuple and left a queue empty
C15_Witness ==
  /\ last.op = "search" /\ last.ret
  /\ last.iters >= 1
  /\ Drops(last.calls) # <<>>
  /\ \E k \in Streams : queue[k] = <<>>

----------------------------------------------------------------------------
(* C16: on a synchronizer into which no element has ever been inserted,    *)
(* any number of consecutive search() calls each return false, invoke no   *)
(* callback, and leave next_t at its initial minimum and every queue       *)
(* empty.                                                                  *)
C16_FreshSearchIdle ==
  (\A k \in Streams : accepted[k] = <<>>) =>
    /\ ~last.ret /\ ~last.thrown /\ ~last.undef
    /\ last.calls = <<>> /\ calls = <<>>
    /\ m_next_t = INT64_MIN
    /\ \A k \in Streams : queue[k] = <<>>
    /\ search_idx = Zeros /\ optimal_idx = Zeros

\* search() has been called at least twice in a row on the fresh object
C16_Witness ==
  /\ \A k \in Streams : accepted[k] = <<>> /\ nadd[k] = 0
  /\ last.op = "search" /\ last.prev = "search"

----------------------------------------------------------------------------
(* C20: in the commit phase of a successful search the element delivered   *)
(* to the match callback for each stream i is exactly the chosen           *)
(* representative, the element that stood at optimal_idx_i of queue_i when *)
(* the greedy loop ended: the re-trim against max_t_best never evicts a    *)
(* chosen representative.                                                  *)
C20_Original ==
  (last.op = "search" /\ last.ret) =>
    /\ Matches(last.calls)[1].els = last.chosen
    /\ \A i \in 1 .. N : last.chosen[i] \notin Range(Flatten(Drops(last.calls)))

----------------------------------------------------------------------------
(* C17: ThreadPool with n_workers >= 1: every task enqueue accepted is     *)
(* executed exactly once by exactly one worker, tasks leave the queue in   *)
(* the order they were enqueued, a worker leaves its loop only when stop   *)
(* is set and the queue is empty, the destructor returns only after every  *)
(* accepted task has finished and all workers have exited, and it does     *)
(* return: no worker stays blocked on the condition variable for ever.     *)
PoolSafe ==
  /\ \A i \in DOMAIN ran : \A j \in DOMAIN ran : ran[i][1] = ran[j][1] => i = j
  /\ \A i \in DOMAIN ran : ran[i][1] \in Range(taken)
  /\ taken = [i \in 1 .. Len(taken) |-> i]
  /\ Len(taken) + Len(m_tasks) = nenq
  /\ \A w \in Workers : m_workers[w] = "exited" => m_stop /\ m_tasks = <<>>
  /\ owner = "destroyed" =>
       /\ \A w \in Workers : m_workers[w] = "exited"
       /\ {ran[i][1] : i \in DOMAIN ran} = 1 .. nenq
       /\ Len(ran) = nenq

C17_PoolRunsEachTaskOnce == []PoolSafe /\ <>(owner = "destroyed")

\* the pool is destroyed after MaxTasks tasks, and every worker has run one
C17_Witness ==
  /\ owner = "destroyed" /\ nenq = MaxTasks
  /\ \A w \in Workers : \E i \in DOMAIN ran : ran[i][2] = w

----------------------------------------------------------------------------
(* C18: CyberTimer start/stop state machine: tic, toc_tic and restart      *)
(* leave the timer running, toc and stop leave it stopped; toc on a        *)
(* running timer sets the latest duration to t_stop - t_start (in the      *)
(* timer's unit) and adds exactly one to the count; toc on a stopped timer *)
(* returns what the previous toc returned and changes neither the latest   *)
(* duration nor the count; stop changes neither; restart sets the count to *)
(* 0.  So the count is always the number of toc / toc_tic calls made on a  *)
(* running timer since construction or the last restart.                   *)
C18_TimerStateMachine ==
  [][/\ tlast'.op \in {"tic", "toc_tic", "restart"} => running_'
     /\ tlast'.op \in {"toc", "stop"} => ~running_'
     /\ (tlast'.op = "toc" /\ running_) =>
          /\ dt_' = (tlast'.t - t_start_) * UnitsPerTick
          /\ tlast'.ret = dt_'
          /\ i_' = i_ + 1
     /\ (tlast'.op = "toc" /\ ~running_) =>
          /\ tlast.toced => tlast'.ret = tlast.tocret
          /\ tlast'.ret = dt_
          /\ dt_' = dt_ /\ i_' = i_
     /\ tlast'.op = "stop" => dt_' = dt_ /\ i_' = i_
     /\ tlast'.op = "restart" => i_' = 0
     /\ i_' = ntoc']_vars

\* toc has just been called on a stopped timer that holds two samples
C18_Witness ==
  /\ tlast.op = "toc" /\ ~running_
  /\ i_ = 2 /\ ntoc = 2
  /\ tlast.ret = dt_ /\ dt_ = 2 * UnitsPerTick
  /\ tlast.t # t_start_ + 2

----------------------------------------------------------------------------
----------------------------------------------------------------------------
(* C21: next_t starts at the minimum int64 value and is changed only by a  *)
(* search that returns true, which sets it to min_t_best + delta_t of that *)
(* search; add, and any search that returns false, leave it unchanged.     *)
(* Stated over the statements of search: only the commit of a search that  *)
(* returns true assigns next_t.                                            *)
C21_NextTFrame ==
  /\ m_next_t = INT64_MIN
  /\ [][/\ (spc = "commit" /\ sctl'.ret) =>
              m_next_t' = loc.min_t_best + m_delta_t
        /\ (spc # "commit" \/ ~sctl'.ret) => m_next_t' = m_next_t]_vars

\* a search has returned true under a positive delta_t and moved next_t into
\* the window of stamps, and elements are still queued
C21_Witness ==
  /\ spc = "idle" /\ sctl.ret
  /\ m_delta_t > 0 /\ m_next_t > 1
  /\ \E k \in StreamsS : queue[k] # <<>>

----------------------------------------------------------------------------
(* C22: whenever no search call is in progress (after construction, after  *)
(* any add, and after every return of search, true or false) search_idx    *)
(* and optimal_idx are 0 for every stream; a loop that advanced indices    *)
(* and stopped early leaves no stale index.                                *)
C22_IndicesZeroBetweenSearches ==
  spc \in {"idle", "call"} =>
    \A k \in DOMAIN queue : search_idx[k] = 0 /\ optimal_idx[k] = 0

\* a search whose loop advanced an index and stopped at the break has
\* returned true, and elements are still queued
C22_Witness ==
  /\ spc = "idle" /\ sctl.ret
  /\ sctl.brk /\ sctl.iters >= 1
  /\ \E k \in StreamsS : queue[k] # <<>>

----------------------------------------------------------------------------
(* C23: in a search that gets past the empty-queue check the pivot is the  *)
(* maximum over all streams of the front timestamp, and after the pivot    *)
(* trim every queue is still non-empty, holds at most one element stamped  *)
(* strictly before the pivot, has a front stamped at or before the pivot,  *)
(* and the maximum of the front timestamps still equals the pivot.         *)
C23_PivotTrim ==
  [][(spc = "entry" /\ spc' = "trimmed") =>
       LET pivot == loc'.pivot_time
       IN  /\ pivot = SetMax({queue[k][1].t : k \in DOMAIN queue})
           /\ \A k \in DOMAIN queue :
                /\ queue'[k] # <<>>
                /\ Cardinality({i \in DOMAIN queue'[k] : queue'[k][i].t < pivot}) <= 1
                /\ queue'[k][1].t <= pivot
           /\ SetMax({queue'[k][1].t : k \in DOMAIN queue}) = pivot]_vars

\* the pivot trim has evicted an element, and afterwards one queue keeps an
\* element stamped before the pivot in front of a later one
C23_Witness ==
  /\ spc = "trimmed" /\ loc.ntrim >= 1
  /\ \E k \in StreamsS :
       Len(queue[k]) >= 2 /\ queue[k][1].t < loc.pivot_time

----------------------------------------------------------------------------
\* the stamps of the elements of stream k that the drop callbacks invoked
\* after the first `from` callbacks of cs have received, in order
DropStamps(cs, from, k) ==
  LET ds == SelectSeq(SubSeq(cs, from + 1, Len(cs)),
                      LAMBDA c : c.kind = "drop" /\ c.stream = k)
  IN  [i \in DOMAIN ds |-> ds[i].els[1].t]

(* C24 as stated: the trimming steps of search (against next_t at entry,   *)
(* against the pivot, against max_t_best at commit) evict only elements    *)
(* stamped strictly before the reference time; an element stamped exactly  *)
(* at the reference time is never evicted by trimming.  At commit the      *)
(* first optimal_idx drops of a stream are those of the drop loop, the     *)
(* later ones those of the trim.                                           *)
C24_Original ==
  [][\A k \in DOMAIN queue :
       LET ds == DropStamps(calls', Len(calls), k)
       IN  /\ (spc = "call" /\ spc' = "entry") =>
                \A i \in DOMAIN ds : ds[i] < m_next_t
           /\ (spc = "entry" /\ spc' = "trimmed") =>
                \A i \in DOMAIN ds : ds[i] < loc'.pivot_time
           /\ spc = "commit" =>
                \A i \in DOMAIN ds :
                  i > optimal_idx[k] => ds[i] < loc.max_t_best]_vars

----------------------------------------------------------------------------
RECURSIVE LoopNoBreak(_, _, _)
\* the while loop of search without its early stop: the indices advance
\* until min_t >= pivot_time and the narrowest window seen is kept
LoopNoBreak(qs, pivot_time, g) ==
  IF ~(g.min_t < pivot_time)
    THEN g
    ELSE
      LET inc == increase_first_with_time(qs, g.search_idx, g.min_t)
      IN  IF inc.thrown \/ ~AllInRange(qs, inc.search_idx)
            THEN [g EXCEPT !.thrown = TRUE]
            ELSE
              LET min_t == min_first_time(qs, inc.search_idx)
                  max_t == max_first_time(qs, inc.search_idx)
                  moved == [g EXCEPT !.search_idx = inc.search_idx,
                                     !.min_t = min_t, !.max_t = max_t,
                                     !.iters = @ + 1]
              IN  IF max_t - min_t < g.max_t_best - g.min_t_best
                    THEN LoopNoBreak(qs, pivot_time,
                           [moved EXCEPT !.max_t_best = max_t, !.min_t_best = min_t,
                                         !.optimal_idx = inc.search_idx])
                    ELSE LoopNoBreak(qs, pivot_time, moved)

\* that loop run from the base case of the search in progress
NoBreak ==
  LET zero == [k \in DOMAIN queue |-> 0]
      min0 == min_first_time(queue, zero)
  IN  LoopNoBreak(queue, loc.pivot_time,
        [search_idx |-> zero, optimal_idx |-> zero,
         min_t |-> min0, max_t |-> loc.pivot_time,
         min_t_best |-> min0, max_t_best |-> loc.pivot_time,
         thrown |-> FALSE, iters |-> 0, brk |-> FALSE])

(* C25: the early stop of the greedy loop is sound: throughout the loop    *)
(* min_t <= pivot <= max_t and max_t never decreases, and when the loop    *)
(* has ended, by the break or by its test, the best window and the optimal *)
(* indices are those the same loop selects without the early stop.         *)
C25_EarlyStopSound ==
  [][/\ spc' \in {"loop", "commit"} =>
          /\ loc'.min_t <= loc'.pivot_time
          /\ loc'.pivot_time <= loc'.max_t
     /\ (spc = "loop" /\ spc' \in {"loop", "commit"}) => loc'.max_t >= loc.max_t
     /\ spc = "commit" =>
          /\ ~NoBreak.thrown
          /\ NoBreak.min_t_best = loc.min_t_best
          /\ NoBreak.max_t_best = loc.max_t_best
          /\ NoBreak.optimal_idx = optimal_idx
          /\ NoBreak.iters >= loc.iters]_vars

\* the loop has stopped at the break after one pass that improved nothing,
\* where the loop without the break goes on for another pass
C25_Witness ==
  /\ spc = "commit" /\ loc.brk
  /\ loc.iters = 1 /\ NoBreak.iters = 2
  /\ loc.max_t_best - loc.min_t_best > 0

----------------------------------------------------------------------------
(* C26: each iteration of the greedy loop increments the search index of   *)
(* exactly one stream by exactly one: the lowest-numbered stream whose     *)
(* element at its search index is stamped min_t; every other search index  *)
(* is unchanged, and the best window and the optimal indices are replaced  *)
(* only when the new window is strictly narrower than the best so far.     *)
C26_OneIndexPerIteration ==
  [][(spc = "loop" /\ loc.min_t < loc.pivot_time) =>
       LET at == [k \in DOMAIN queue |-> queue[k][search_idx[k] + 1].t]
           k0 == SetMin({k \in DOMAIN queue : at[k] = loc.min_t})
           now == {queue[k][search_idx'[k] + 1].t : k \in DOMAIN queue}
           best == <<loc.min_t_best, loc.max_t_best, optimal_idx>>
       IN  /\ spc' \in {"loop", "commit"}
           /\ search_idx' = [search_idx EXCEPT ![k0] = @ + 1]
           /\ <<loc'.min_t_best, loc'.max_t_best, optimal_idx'>> # best =>
                /\ SetMax(now) - SetMin(now) < loc.max_t_best - loc.min_t_best
                /\ loc'.min_t_best = SetMin(now) /\ loc'.max_t_best = SetMax(now)
                /\ optimal_idx' = search_idx']_vars

\* two streams stood at min_t; the first pass advanced the lower-numbered
\* one, improved nothing, and the loop goes on
C26_Witness ==
  /\ spc = "loop" /\ loc.iters = 1
  /\ loc.min_t < loc.pivot_time
  /\ \E j \in StreamsS, k \in StreamsS :
       /\ j < k
       /\ search_idx[j] = 1 /\ search_idx[k] = 0
       /\ queue[j][1].t = queue[k][1].t
  /\ \A k \in StreamsS : optimal_idx[k] = 0

----------------------------------------------------------------------------
(* C27: whenever search() returns true, every timestamp of the delivered   *)
(* tuple lies in [min_t_best, max_t_best], and the tuple's spread is no    *)
(* larger than the spread of any combination of one element per queue,     *)
(* taken from the queues as they stand after the pivot trim, that uses the *)
(* front element of a queue whose front is stamped at the pivot; in        *)
(* particular it is no larger than the spread of the post-trim fronts.     *)
C27_DeliveredWithinBestWindow ==
  [][(spc = "commit" /\ sctl'.ret) =>
       LET tup == calls'[Len(calls')].els
           fronts == [k \in DOMAIN queue |-> queue[k][1]]
       IN  /\ calls'[Len(calls')].kind = "match"
           /\ \A i \in DOMAIN tup :
                loc.min_t_best <= tup[i].t /\ tup[i].t <= loc.max_t_best
           /\ \A c \in Combos(queue) :
                (\E k \in DOMAIN queue :
                   queue[k][1].t = loc.pivot_time /\ c[k] = queue[k][1]) =>
                  Spread(tup) <= Spread(c)
           /\ Spread(tup) <= Spread(fronts)]_vars

\* a search whose loop ran twice has returned true; the tuple it delivered
\* has unequal stamps and elements are still queued
C27_Witness ==
  /\ spc = "idle" /\ sctl.ret /\ sctl.iters = 2
  /\ calls # <<>> /\ calls[Len(calls)].kind = "match"
  /\ Spread(calls[Len(calls)].els) > 0
  /\ \E k \in StreamsS : queue[k] # <<>>

----------------------------------------------------------------------------
----------------------------------------------------------------------------
\* the elements of stream k in the order in which the callbacks received them
LeftOf(k) ==
  LET cs == SelectSeq(calls, LAMBDA c : c.kind = "match" \/ c.stream = k)
  IN  [i \in DOMAIN cs |->
         IF cs[i].kind = "match" THEN cs[i].els[k + 1] ELSE cs[i].els[1]]

(* C29: for every stream i the elements leaving queue_i, to the drop       *)
(* callback or to the match callback, leave in exactly the order in which  *)
(* add<i> accepted them; so the stream-i stamps of successive match tuples *)
(* are non-decreasing; and within one search call every drop callback of   *)
(* that call is invoked before its match callback.                         *)
C29_LeaveInAcceptedOrder ==
  /\ \A k \in Streams : LeftOf(k) = SubSeq(accepted[k], 1, Len(LeftOf(k)))
  /\ LET ms == Matches(calls)
     IN  \A i \in 1 .. (Len(ms) - 1) : \A j \in 1 .. N :
           ms[i].els[j].t <= ms[i + 1].els[j].t
  /\ last.op = "search" =>
       \A i \in DOMAIN last.calls :
         last.calls[i].kind = "match" => i = Len(last.calls)

\* a search has handed an element to the drop callback and then delivered a
\* tuple, the second so far: a stream has lost a matched element, a dropped
\* one and a matched one, in that order
C29_Witness ==
  /\ last.op = "search" /\ last.ret
  /\ Len(Matches(calls)) >= 2
  /\ \E k \in Streams :
       /\ \E i \in DOMAIN last.calls :
            last.calls[i].kind = "drop" /\ last.calls[i].stream = k
       /\ Len(LeftOf(k)) >= 3

----------------------------------------------------------------------------
RECURSIVE SumUpTo(_, _)
SumUpTo(idx, n) == IF n = 0 THEN 0 ELSE idx[n - 1] + SumUpTo(idx, n - 1)

\* the sum of one number per stream
SumIdx(idx) == SumUpTo(idx, Cardinality(DOMAIN idx))

(* C30: every search() call terminates: each pass of the greedy loop       *)
(* advances one search index and no index passes the end of its queue, so  *)
(* the passes are at most the queued elements beyond the fronts; and every *)
(* single-threaded add_and_search terminates: a search that returns true   *)
(* removes an element from every queue, so the drain loop calls search at  *)
(* most (length of the shortest queue) + 1 times.                          *)
C30_Terminates ==
  /\ [](/\ spc \in {"loop", "commit"} =>
            /\ \A k \in DOMAIN queue : search_idx[k] < Len(queue[k])
            /\ loc.iters = SumIdx(search_idx)
            /\ loc.iters <= SumIdx([k \in DOMAIN queue |-> Len(queue[k]) - 1])
        /\ ~sctl.thrown
        /\ sctl.mode = "drain" => sctl.nsearch <= sctl.len0 + 1)
  /\ [][(spc = "commit" /\ sctl'.ret) =>
          \A k \in DOMAIN queue : Len(queue'[k]) < Len(queue[k])]_vars
  /\ (spc # "idle") ~> (spc = "idle")

\* the drain loop of an add_and_search has called search for the third time
\* with a shortest queue of two elements
C30_Witness ==
  /\ sctl.mode = "drain" /\ spc = "entry"
  /\ sctl.len0 = 2 /\ sctl.nsearch = 3

====
